---- MODULE Spec2Model ----
(***************************************************************************)
(* Model of the GitHub Copilot CLI adapter of the LLM framework            *)
(* (core/llm_github_copilot.go): GhcpClient.SendQuery, IsRetryable,        *)
(* StripGitHubModelPrefix, parseCopilotTokenMetadata and parseTokenValue.  *)
(*                                                                         *)
(* Go strings whose characters the code inspects (model identifiers, the   *)
(* standard error text) are sequences of one-character strings.  Strings   *)
(* the code only passes along (prompts, standard output) are atoms.        *)
(***************************************************************************)
EXTENDS Integers, Sequences, FiniteSets, TLC

VARIABLES
    endpoint,   \* adapter -> its LLMEndpoint (GhcpClient.endpoint)
    client,     \* adapter -> its base container (GhcpClient.client)
    call,       \* call slot -> the locals and the position of one SendQuery call
    runs,       \* call slot -> what the sandbox executed and served for the call
    nModel,     \* normalizer: the model identifier handed to StripGitHubModelPrefix
    nResult,    \* normalizer: its return value, NotNormalized before the call
    xParts,     \* extractor: the pieces the diagnostic text was written from
    xText,      \* extractor: the text handed to parseCopilotTokenMetadata
    xUsage      \* extractor: its return value, and whether the call was made

adapterVars == <<endpoint, client, call, runs>>
normVars    == <<nModel, nResult>>
extVars     == <<xParts, xText, xUsage>>
vars        == <<endpoint, client, call, runs, nModel, nResult, xParts, xText, xUsage>>

None == "none"

(***************************************************************************)
(* strings package                                                         *)
(***************************************************************************)

\* strings.HasPrefix(s, prefix)
HasPrefix(s, prefix) ==
    /\ Len(s) >= Len(prefix)
    /\ SubSeq(s, 1, Len(prefix)) = prefix

\* strings.TrimPrefix(s, prefix)
TrimPrefix(s, prefix) ==
    IF HasPrefix(s, prefix) THEN SubSeq(s, Len(prefix) + 1, Len(s)) ELSE s

(***************************************************************************)
(* ModelNameNormalizer                                                     *)
(***************************************************************************)

gitHubModelPrefixes ==
    << <<"g","i","t","h","u","b","-">>,
       <<"g","i","t","h","u","b","/">>,
       <<"g","h","-">>,
       <<"g","h","/">>,
       <<"g","h","c","p","-">>,
       <<"g","h","c","p","/">> >>

\* the range loop of StripGitHubModelPrefix, from index i of the prefix list
RECURSIVE StripFrom(_, _)
StripFrom(model, i) ==
    IF i > Len(gitHubModelPrefixes) THEN model
    ELSE IF HasPrefix(model, gitHubModelPrefixes[i])
         THEN TrimPrefix(model, gitHubModelPrefixes[i])
         ELSE StripFrom(model, i + 1)

\* a normalizer that keeps stripping while a recognized prefix remains
RECURSIVE StripAllPrefixes(_)
StripAllPrefixes(model) ==
    IF StripFrom(model, 1) = model THEN model
    ELSE StripAllPrefixes(StripFrom(model, 1))

StripGitHubModelPrefix(model) == StripFrom(model, 1)

\* no return value yet
NotNormalized == [done |-> FALSE, value |-> <<>>]

(***************************************************************************)
(* Model identifiers of the normalizer specification: a base name behind   *)
(* up to MaxStack alias pieces, the recognized ones and two case variants. *)
(***************************************************************************)

MaxStack == 2

BaseNames ==
    { <<"g","p","t","-","5">>,
      <<"c","l","a","u","d","e","-","3">>,
      <<>> }

AliasPieces ==
    { gitHubModelPrefixes[i] : i \in 1..Len(gitHubModelPrefixes) }
    \cup { <<"G","i","t","H","u","b","-">>, <<"G","H","-">> }

RECURSIVE Stacked(_)
Stacked(n) ==
    IF n = 0 THEN { <<>> }
    ELSE Stacked(n - 1) \cup { p \o s : p \in AliasPieces, s \in Stacked(n - 1) }

ModelIds == { s \o b : s \in Stacked(MaxStack), b \in BaseNames }

(***************************************************************************)
(* float64 arithmetic, as strconv.ParseFloat, the multiplication by 1000   *)
(* and the conversion int64(...) of parseTokenValue perform it.            *)
(* A positive float64 is [m |-> 53 bits, most significant first,           *)
(* e |-> exponent], of value m * 2^e; zero is [m |-> <<>>, e |-> 0].       *)
(* Every result is rounded to nearest, ties to even (IEEE 754).            *)
(***************************************************************************)

MantissaBits == 53

Digits == {"0","1","2","3","4","5","6","7","8","9"}

DigitVal(c) ==
    CASE c = "0" -> 0 [] c = "1" -> 1 [] c = "2" -> 2 [] c = "3" -> 3
      [] c = "4" -> 4 [] c = "5" -> 5 [] c = "6" -> 6 [] c = "7" -> 7
      [] c = "8" -> 8 [] c = "9" -> 9

RECURSIVE ToBits(_)
ToBits(n) == IF n = 0 THEN <<>> ELSE Append(ToBits(n \div 2), n % 2)

RECURSIVE FromBits(_)
FromBits(b) ==
    IF b = <<>> THEN 0
    ELSE 2 * FromBits(SubSeq(b, 1, Len(b) - 1)) + b[Len(b)]

\* n in exactly w bits
ToBitsN(n, w) == [i \in 1..w |-> (n \div 2^(w - i)) % 2]

RECURSIVE Pow10(_)
Pow10(n) == IF n = 0 THEN 1 ELSE 10 * Pow10(n - 1)

\* 2^j mod t, by repeated squaring
RECURSIVE Pow2Mod(_, _)
Pow2Mod(j, t) ==
    IF j = 0 THEN 1 % t
    ELSE IF j % 2 = 0
         THEN LET h == Pow2Mod(j \div 2, t) IN (h * h) % t
         ELSE (2 * Pow2Mod(j - 1, t)) % t

\* b + 1 on a bit sequence; the result is one bit longer when b is all ones
IncrBits(b) ==
    LET zeros == { i \in 1..Len(b) : b[i] = 0 }
    IN  IF zeros = {} THEN <<1>> \o [i \in 1..Len(b) |-> 0]
        ELSE LET p == CHOOSE i \in zeros : \A j \in zeros : j <= i
             IN  [i \in 1..Len(b) |-> IF i < p THEN b[i] ELSE IF i = p THEN 1 ELSE 0]

\* the float64 nearest to (q + d) * 2^e, where q has more than 53 bits,
\* 0 <= d < 1 and sticky says d > 0
RoundToFloat(q, e, sticky) ==
    LET drop  == Len(q) - MantissaBits
        kept  == SubSeq(q, 1, MantissaBits)
        half  == q[MantissaBits + 1] = 1
        below == sticky \/ \E i \in (MantissaBits + 2)..Len(q) : q[i] = 1
        up    == half /\ (below \/ kept[MantissaBits] = 1)
        inc   == IncrBits(kept)
    IN  IF ~up THEN [m |-> kept, e |-> e + drop]
        ELSE IF Len(inc) = MantissaBits THEN [m |-> inc, e |-> e + drop]
        ELSE [m |-> SubSeq(inc, 1, MantissaBits), e |-> e + drop + 1]

\* the float64 nearest to the decimal d / 10^f (0 <= d < 2^31, f <= 4):
\* the binary expansion of the quotient to 54 significant bits, rounded.
\* Bit j behind the binary point is floor(2 * ((d * 2^(j-1)) mod 10^f) / 10^f).
DecimalToFloat(d, f) ==
    LET t          == Pow10(f)
        intBits    == ToBits(d \div t)
        remAt(j)   == ((d % t) * Pow2Mod(j, t)) % t
        fracBit(j) == (2 * remAt(j - 1)) \div t
        first      == CHOOSE j \in 1..(4 * f + 1) :
                          /\ fracBit(j) = 1
                          /\ \A i \in 1..(j - 1) : fracBit(i) = 0
        n          == IF intBits # <<>> THEN MantissaBits + 1 - Len(intBits)
                      ELSE first + MantissaBits
        q          == IF intBits # <<>>
                      THEN intBits \o [j \in 1..n |-> fracBit(j)]
                      ELSE [j \in 1..(MantissaBits + 1) |-> fracBit(first - 1 + j)]
    IN  IF d = 0 THEN [m |-> <<>>, e |-> 0]
        ELSE RoundToFloat(q, 0 - n, remAt(n) # 0)

LimbBits == 20

\* bits * c for a 53-bit mantissa and a small positive c (c < 2^10), by
\* limbs of 20 bits
MulBits(bits, c) ==
    LET lo   == FromBits(SubSeq(bits, Len(bits) - LimbBits + 1, Len(bits)))
        mid  == FromBits(SubSeq(bits, Len(bits) - 2 * LimbBits + 1, Len(bits) - LimbBits))
        hi   == FromBits(SubSeq(bits, 1, Len(bits) - 2 * LimbBits))
        base == 2^LimbBits
        p0   == lo * c
        p1   == mid * c + p0 \div base
        p2   == hi * c + p1 \div base
    IN  ToBits(p2) \o ToBitsN(p1 % base, LimbBits) \o ToBitsN(p0 % base, LimbBits)

\* x * c in float64, c a small positive integer (inputVal *= 1000)
FloatMul(x, c) ==
    IF x.m = <<>> THEN x
    ELSE RoundToFloat(MulBits(x.m, c), x.e, FALSE)

\* int64(x) for 0 <= x < 2^31: truncation toward zero
FloatToInt64(x) ==
    IF x.m = <<>> THEN 0
    ELSE IF x.e >= 0 THEN FromBits(x.m \o [i \in 1..x.e |-> 0])
    ELSE IF 0 - x.e >= Len(x.m) THEN 0
    ELSE FromBits(SubSeq(x.m, 1, Len(x.m) + x.e))

(***************************************************************************)
(* The usage pattern of parseCopilotTokenMetadata:                         *)
(*   (\d+(?:\.\d+)?)(k?)\s+input,\s*(\d+(?:\.\d+)?)(k?)\s+output,\s*       *)
(*   (\d+(?:\.\d+)?)(k?)\s+cache read                                      *)
(*   (?:,\s*(\d+(?:\.\d+)?)(k?)\s+cache write)?                            *)
(* Every repetition is greedy and is followed by an element that cannot    *)
(* match what it repeats, so the match at a position is the greedy one.    *)
(***************************************************************************)

\* \s of Go's regexp syntax
WhiteSpace == {" ", "\t", "\n", "\f", "\r"}

KwInput      == <<"i","n","p","u","t",",">>
KwOutput     == <<"o","u","t","p","u","t",",">>
KwCacheRead  == <<"c","a","c","h","e"," ","r","e","a","d">>
KwCacheWrite == <<"c","a","c","h","e"," ","w","r","i","t","e">>

\* the end of the longest run of characters of class from position i
RECURSIVE SpanEnd(_, _, _)
SpanEnd(s, i, class) ==
    IF i > Len(s) THEN i
    ELSE IF s[i] \notin class THEN i
    ELSE SpanEnd(s, i + 1, class)

LiteralAt(s, i, lit) ==
    /\ i + Len(lit) - 1 <= Len(s)
    /\ SubSeq(s, i, i + Len(lit) - 1) = lit

\* \d+(?:\.\d+)? at position i: the position behind it, 0 when it fails
NumberEnd(s, i) ==
    LET j == SpanEnd(s, i, Digits)
    IN  IF j = i THEN 0
        ELSE IF j + 1 <= Len(s) /\ s[j] = "." /\ s[j + 1] \in Digits
             THEN SpanEnd(s, j + 1, Digits)
             ELSE j

\* (\d+(?:\.\d+)?)(k?)\s+keyword at position i
MatchClause(s, i, keyword) ==
    LET e    == NumberEnd(s, i)
        hasK == e <= Len(s) /\ s[e] = "k"
        e2   == IF hasK THEN e + 1 ELSE e
        w    == SpanEnd(s, e2, WhiteSpace)
    IN  IF e = 0 \/ w = e2 \/ ~LiteralAt(s, w, keyword)
        THEN [ok |-> FALSE]
        ELSE [ok |-> TRUE, value |-> SubSeq(s, i, e - 1),
              mult |-> SubSeq(s, e, e2 - 1), next |-> w + Len(keyword)]

Keywords == <<KwInput, KwOutput, KwCacheRead, KwCacheWrite>>

\* where the number of clause k begins when the clause before it ends in
\* front of position i: behind \s* for output and cache read, behind ,\s*
\* for cache write (0 when the comma is missing)
ClauseStart(s, i, k) ==
    IF k = 1 THEN i
    ELSE IF k < 4 THEN SpanEnd(s, i, WhiteSpace)
    ELSE IF i <= Len(s) /\ s[i] = "," THEN SpanEnd(s, i + 1, WhiteSpace)
    ELSE 0

\* clause k at the position ClauseStart gives
ClauseAt(s, start, k) ==
    IF start = 0 THEN [ok |-> FALSE] ELSE MatchClause(s, start, Keywords[k])

\* the clauses k.. of the pattern from position i, behind the groups of the
\* clauses before; c is the match of clause k.  The cache write clause
\* (k = 4) may be left out, and then its two groups are empty strings.
RECURSIVE MatchFrom(_, _, _, _, _)
MatchFrom(s, i, k, groups, c) ==
    IF c.ok
    THEN IF k = 4
         THEN [ok |-> TRUE, end |-> c.next, groups |-> groups \o <<c.value, c.mult>>]
         ELSE MatchFrom(s, c.next, k + 1, groups \o <<c.value, c.mult>>,
                        ClauseAt(s, ClauseStart(s, c.next, k + 1), k + 1))
    ELSE IF k = 4
         THEN [ok |-> TRUE, end |-> i, groups |-> groups \o << <<>>, <<>> >>]
         ELSE [ok |-> FALSE]

\* the submatches of a match m that begins at position i
Submatches(s, i, m) ==
    IF m.ok THEN <<SubSeq(s, i, m.end - 1)>> \o m.groups ELSE <<>>

\* the submatches of the pattern anchored at position i, <<>> when it does
\* not match there
MatchAt(s, i) ==
    Submatches(s, i, MatchFrom(s, i, 1, <<>>, ClauseAt(s, i, 1)))

\* the match at the least of the positions starts, <<>> (nil) when there is none
LeftmostMatch(s, starts) ==
    IF starts = {} THEN <<>>
    ELSE MatchAt(s, CHOOSE i \in starts : \A j \in starts : i <= j)

\* re.FindStringSubmatch: the leftmost match.  matches[n] of the code is
\* element n + 1.
FindStringSubmatch(s) ==
    LeftmostMatch(s, { i \in 1..Len(s) : s[i] \in Digits /\ MatchAt(s, i) # <<>> })

(***************************************************************************)
(* UsageMetricExtractor                                                    *)
(***************************************************************************)

UpperLetters == <<"A","B","C","D","E","F","G","H","I","J","K","L","M",
                  "N","O","P","Q","R","S","T","U","V","W","X","Y","Z">>
LowerLetters == <<"a","b","c","d","e","f","g","h","i","j","k","l","m",
                  "n","o","p","q","r","s","t","u","v","w","x","y","z">>

\* strings.ToLower
ToLower(s) ==
    [i \in 1..Len(s) |->
        IF \E n \in 1..26 : UpperLetters[n] = s[i]
        THEN LowerLetters[CHOOSE n \in 1..26 : UpperLetters[n] = s[i]]
        ELSE s[i]]

\* the decimal forms the pattern captures: digits, or digits "." digits
IsDecimal(s) ==
    /\ s # <<>>
    /\ \A i \in 1..Len(s) : s[i] \in Digits \cup {"."}
    /\ Cardinality({ i \in 1..Len(s) : s[i] = "." }) <= 1
    /\ s[1] # "." /\ s[Len(s)] # "."

\* the number the digits of s spell, the decimal point left out
RECURSIVE DigitsValue(_)
DigitsValue(s) ==
    IF s = <<>> THEN 0
    ELSE IF s[Len(s)] = "." THEN DigitsValue(SubSeq(s, 1, Len(s) - 1))
    ELSE 10 * DigitsValue(SubSeq(s, 1, Len(s) - 1)) + DigitVal(s[Len(s)])

FractionDigits(s) ==
    IF \E i \in 1..Len(s) : s[i] = "."
    THEN Len(s) - (CHOOSE i \in 1..Len(s) : s[i] = ".")
    ELSE 0

\* strconv.ParseFloat(valueStr, 64) on a decimal form
ParseFloat(valueStr) == DecimalToFloat(DigitsValue(valueStr), FractionDigits(valueStr))

\* parseTokenValue: the match groups only hand it a decimal form or the
\* empty string, on which ParseFloat fails
parseTokenValue(valueStr, multiplierStr) ==
    IF IsDecimal(valueStr)
    THEN LET inputVal == ParseFloat(valueStr)
         IN  IF ToLower(multiplierStr) = <<"k">>
             THEN FloatToInt64(FloatMul(inputVal, 1000))
             ELSE FloatToInt64(inputVal)
    ELSE 0

\* the zero value of LLMTokenUsage
ZeroUsage ==
    [InputTokens |-> 0, OutputTokens |-> 0, CachedTokenReads |-> 0,
     CachedTokenWrites |-> 0, TotalTokens |-> 0]

NotExtracted == [done |-> FALSE, usage |-> ZeroUsage]

\* the fields of tokenUsage from the four values of the match
UsageOfValues(values) ==
    [InputTokens       |-> values[1],
     OutputTokens      |-> values[2],
     CachedTokenReads  |-> values[3],
     CachedTokenWrites |-> values[4],
     TotalTokens       |-> values[1] + values[2]]

\* the body of parseCopilotTokenMetadata behind FindStringSubmatch
UsageOfMatches(matches) ==
    IF Len(matches) > 7
    THEN UsageOfValues([n \in 1..4 |-> parseTokenValue(matches[2 * n], matches[2 * n + 1])])
    ELSE ZeroUsage

parseCopilotTokenMetadata(copilotclimetadata) ==
    UsageOfMatches(FindStringSubmatch(copilotclimetadata))

(***************************************************************************)
(* ClientAdapter: GhcpClient and the steps of SendQuery                    *)
(***************************************************************************)

NumAdapters == 2

Adapters == 1..NumAdapters

EndpointModels ==
    << <<"g","i","t","h","u","b","-","g","p","t","-","5">>,
       <<"g","h","-","c","l","a","u","d","e","-","3">> >>

\* the LLMEndpoint adapter a is constructed with
EndpointOf(a) ==
    [Key      |-> <<"token", a>>,
     Model    |-> EndpointModels[((a - 1) % Len(EndpointModels)) + 1],
     Provider |-> "github"]

CliVersion == "0.0.339"

\* a container is the chain of calls that built it; nothing runs before a
\* read of its output
GhcpClientContainer(token, cliVersion) ==
    [from    |-> "node:24-bookworm-slim",
     execs   |-> << <<"npm", "install", "-g", <<"@github/copilot@", cliVersion>> >> >>,
     env     |-> <<"GITHUB_TOKEN", token>>,
     workdir |-> "/workspace"]

newGhcpClient(ep, cliVersion) ==
    [client |-> GhcpClientContainer(ep.Key, cliVersion), endpoint |-> ep]

\* Container.WithExec: a new container value, the receiver is not changed
WithExec(container, args) == [container EXCEPT !.execs = Append(@, args)]

\* the argument list of the WithExec call of SendQuery
CopilotCommand(copilotModel, prompt) ==
    <<"copilot", "--model", copilotModel, "--prompt", prompt, "--stream", "off">>

\* the nil error
NilError == [kind |-> "nil", msg |-> "nil"]

GaugeNames == <<"LLMInputTokens", "LLMInputTokensCacheReads", "LLMOutputTokens">>

\* the three m.Int64Gauge calls; failing is the first gauge that fails, "ok" if none
GaugeError(failing) ==
    IF failing = "ok" THEN NilError
    ELSE [kind |-> "gauge", msg |-> failing]

EmptyHistoryError ==
    [kind |-> "validation", msg |-> "prompt/chat history cannot be empty"]

NotUserError ==
    [kind |-> "validation", msg |-> "the last message in history must be from the user"]

\* the first message of the history taken for the prompt
SelectFirstMessage(history) == history[1]

\* prompt := history[len(history)-1]
SelectPrompt(history) == history[Len(history)]

\* the two checks of SendQuery on the history; nil when it passes
ValidationFailure(history) ==
    IF Len(history) = 0 THEN EmptyHistoryError
    ELSE IF SelectPrompt(history).Role # "user" THEN NotUserError
    ELSE NilError

\* a retry policy that takes sandbox failures for transient
IsRetryableOnExecError(err) == err.kind = "exec"

\* We're not implementing any retries at the moment
IsRetryable(err) == FALSE

\* the zero values of the locals of SendQuery
NoContainer == [from |-> "", execs |-> <<>>, env |-> <<>>, workdir |-> ""]

NoAttrs == [model |-> <<>>, provider |-> ""]

\* the nil *LLMResponse
NilResponse ==
    [nil |-> TRUE, Content |-> <<>>, ToolCalls |-> <<>>, TokenUsage |-> ZeroUsage]

NoRun == [dispatched |-> FALSE, container |-> NoContainer, stdoutReads |-> 0,
          stderrReads |-> 0, stdout |-> <<>>, stderr |-> <<>>]

IdleCall ==
    [pc |-> "idle", adapter |-> 0, history |-> <<>>, failing |-> "ok",
     copilotModel |-> <<>>, attrs |-> NoAttrs, copilot |-> NoContainer,
     content |-> <<>>, metadata |-> <<>>, response |-> NilResponse,
     rerr |-> NilError, gauges |-> <<>>, retryable |-> FALSE]

\* what the sandboxed tool prints for the command it is run with: an answer
\* to the prompt argument of the last exec of the container
SandboxStdout(container, variant) ==
    <<"answer", container.execs[Len(container.execs)][5], variant>>

InitAdapters(calls) ==
    /\ endpoint = [a \in Adapters |-> newGhcpClient(EndpointOf(a), CliVersion).endpoint]
    /\ client = [a \in Adapters |-> newGhcpClient(EndpointOf(a), CliVersion).client]
    /\ call = [c \in calls |-> IdleCall]
    /\ runs = [c \in calls |-> NoRun]

\* SendQuery up to the last gauge lookup: the model name, the attributes and
\* the three gauges
Setup(c, a, history, failing) ==
    /\ call[c].pc = "idle"
    /\ LET copilotModel == StripGitHubModelPrefix(endpoint[a].Model)
           attrs == [model |-> copilotModel, provider |-> endpoint[a].Provider]
           rerr  == GaugeError(failing)
       IN  call' = [call EXCEPT ![c] =
                [@ EXCEPT !.pc = IF failing = "ok" THEN "validate" ELSE "done",
                          !.adapter = a, !.history = history,
                          !.failing = failing,
                          !.copilotModel = copilotModel, !.attrs = attrs,
                          !.rerr = rerr]]
    /\ UNCHANGED <<endpoint, client, runs, normVars, extVars>>

\* Validate, with the container of the call stored back on the adapter
ValidateStoringClient(c) ==
    /\ call[c].pc = "validate"
    /\ LET history == call[c].history
           rerr    == ValidationFailure(history)
           copilot == WithExec(client[call[c].adapter],
                               CopilotCommand(call[c].copilotModel,
                                              SelectPrompt(history).Content))
       IN  /\ call' = [call EXCEPT ![c] =
                    IF rerr # NilError
                    THEN [@ EXCEPT !.pc = "done", !.rerr = rerr]
                    ELSE [@ EXCEPT !.pc = "stdout", !.copilot = copilot]]
           /\ client' = IF rerr # NilError THEN client
                        ELSE [client EXCEPT ![call[c].adapter] = copilot]
    /\ UNCHANGED <<endpoint, runs, normVars, extVars>>

\* the checks on the history, the choice of the prompt and c.client.WithExec
Validate(c) ==
    /\ call[c].pc = "validate"
    /\ LET history == call[c].history
           rerr    == ValidationFailure(history)
       IN  call' = [call EXCEPT ![c] =
                IF rerr # NilError
                THEN [@ EXCEPT !.pc = "done", !.rerr = rerr]
                ELSE [@ EXCEPT !.pc = "stdout",
                               !.copilot = WithExec(client[call[c].adapter],
                                   CopilotCommand(call[c].copilotModel,
                                                  SelectPrompt(history).Content))]]
    /\ UNCHANGED <<endpoint, client, runs, normVars, extVars>>

\* ReadStdout without the return on a failed read
ReadStdoutIgnoringError(c, outcome) ==
    /\ call[c].pc = "stdout"
    /\ LET out == SandboxStdout(call[c].copilot, outcome.variant)
       IN  /\ runs' = [runs EXCEPT ![c] =
                    [@ EXCEPT !.dispatched = TRUE,
                              !.container = call[c].copilot,
                              !.stdoutReads = @ + 1,
                              !.stdout = IF outcome.ok THEN out ELSE <<>>]]
           /\ call' = [call EXCEPT ![c] =
                    IF outcome.ok
                    THEN [@ EXCEPT !.pc = "stderr", !.content = out]
                    ELSE [@ EXCEPT !.pc = "stderr",
                                   !.rerr = [kind |-> "exec", msg |-> "stdout"]]]
    /\ UNCHANGED <<endpoint, client, normVars, extVars>>

\* content, err := copilot.Stdout(ctx): the sandbox runs the container;
\* outcome is a failure or the variant of the answer the tool gives
ReadStdout(c, outcome) ==
    /\ call[c].pc = "stdout"
    /\ LET out == SandboxStdout(call[c].copilot, outcome.variant)
       IN  /\ runs' = [runs EXCEPT ![c] =
                    [@ EXCEPT !.dispatched = TRUE,
                              !.container = call[c].copilot,
                              !.stdoutReads = @ + 1,
                              !.stdout = IF outcome.ok THEN out ELSE <<>>]]
           /\ call' = [call EXCEPT ![c] =
                    IF outcome.ok
                    THEN [@ EXCEPT !.pc = "stderr", !.content = out]
                    ELSE [@ EXCEPT !.pc = "done",
                                   !.rerr = [kind |-> "exec", msg |-> "stdout"]]]
    /\ UNCHANGED <<endpoint, client, normVars, extVars>>

\* ghcpResponseMetadata, err := copilot.Stderr(ctx)
ReadStderr(c, outcome) ==
    /\ call[c].pc = "stderr"
    /\ runs' = [runs EXCEPT ![c] =
             [@ EXCEPT !.stderrReads = @ + 1,
                       !.stderr = IF outcome.ok THEN outcome.text ELSE <<>>]]
    /\ call' = [call EXCEPT ![c] =
             IF outcome.ok
             THEN [@ EXCEPT !.pc = "extract", !.metadata = outcome.text]
             ELSE [@ EXCEPT !.pc = "done",
                            !.rerr = [kind |-> "exec", msg |-> "stderr"]]]
    /\ UNCHANGED <<endpoint, client, normVars, extVars>>

\* Finish with a metadata text without the usage pattern taken for a failure
FinishStrict(c) ==
    /\ call[c].pc = "extract"
    /\ LET llmTokenUsage == parseCopilotTokenMetadata(call[c].metadata)
           attrs == call[c].attrs
       IN  call' = [call EXCEPT ![c] =
                IF FindStringSubmatch(call[c].metadata) = <<>>
                THEN [@ EXCEPT !.pc = "done",
                               !.rerr = [kind |-> "parse", msg |-> "no usage"]]
                ELSE [@ EXCEPT !.pc = "done",
                          !.gauges =
                              << [name |-> GaugeNames[1], attrs |-> attrs,
                                  value |-> llmTokenUsage.InputTokens],
                                 [name |-> GaugeNames[3], attrs |-> attrs,
                                  value |-> llmTokenUsage.OutputTokens],
                                 [name |-> GaugeNames[2], attrs |-> attrs,
                                  value |-> llmTokenUsage.CachedTokenReads] >>,
                          !.response =
                              [nil        |-> FALSE,
                               Content    |-> call[c].content,
                               ToolCalls  |-> <<>>,
                               TokenUsage |-> llmTokenUsage]]]
    /\ UNCHANGED <<endpoint, client, runs, normVars, extVars>>

\* the usage is parsed, the three gauges are recorded, the response returned
Finish(c) ==
    /\ call[c].pc = "extract"
    /\ LET llmTokenUsage == parseCopilotTokenMetadata(call[c].metadata)
           attrs == call[c].attrs
       IN  call' = [call EXCEPT ![c] =
                [@ EXCEPT !.pc = "done",
                          !.gauges =
                              << [name |-> GaugeNames[1], attrs |-> attrs,
                                  value |-> llmTokenUsage.InputTokens],
                                 [name |-> GaugeNames[3], attrs |-> attrs,
                                  value |-> llmTokenUsage.OutputTokens],
                                 [name |-> GaugeNames[2], attrs |-> attrs,
                                  value |-> llmTokenUsage.CachedTokenReads] >>,
                          !.response =
                              [nil        |-> FALSE,
                               Content    |-> call[c].content,
                               ToolCalls  |-> <<>>,
                               TokenUsage |-> llmTokenUsage]]]
    /\ UNCHANGED <<endpoint, client, runs, normVars, extVars>>

\* the caller hands the error of the finished call (nil on success) to
\* IsRetryable
AskRetryable(c) ==
    /\ call[c].pc = "done"
    /\ call' = [call EXCEPT ![c] =
             [@ EXCEPT !.pc = "asked", !.retryable = IsRetryable(call[c].rerr)]]
    /\ UNCHANGED <<endpoint, client, runs, normVars, extVars>>

\* the caller is done with the result; the slot is free for the next call
Reset(c) ==
    /\ call[c].pc \in {"done", "asked"}
    /\ call' = [call EXCEPT ![c] = IdleCall]
    /\ runs' = [runs EXCEPT ![c] = NoRun]
    /\ UNCHANGED <<endpoint, client, normVars, extVars>>

(***************************************************************************)
(* The adapter specification: calls made one after the other, on either    *)
(* adapter, with every history of up to MaxHistory messages.               *)
(***************************************************************************)

MaxHistory == 2

Roles == {"user", "assistant", "system"}

Contents == {"p1", "p2"}

Messages == [Role : Roles, Content : Contents]

Histories == UNION { [1..n -> Messages] : n \in 0..MaxHistory }

GaugeOutcomes == {"ok"} \cup { GaugeNames[i] : i \in 1..Len(GaugeNames) }

StdoutOutcomes ==
    { [ok |-> FALSE, variant |-> 0] } \cup { [ok |-> TRUE, variant |-> v] : v \in {1, 2} }

UsageLine ==
    <<"c","l","a","u","d","e","-","s","o","n","n","e","t","-","4",".",
       "5"," "," "," "," ","7",".","5","k"," ","i","n","p","u","t",",",
       " ","5","2"," ","o","u","t","p","u","t",","," ","3",".","6","k",
       " ","c","a","c","h","e"," ","r","e","a","d",","," ","3",".","7",
       "k"," ","c","a","c","h","e"," ","w","r","i","t","e"," ","(","E",
       "s","t","."," ","1"," ","P","r","e","m","i","u","m"," ","r","e",
       "q","u","e","s","t",")">>

UsageLineNoWrite ==
    <<"c","l","a","u","d","e","-","s","o","n","n","e","t","-","4",".",
       "5"," "," "," "," ","7",".","5","k"," ","i","n","p","u","t",",",
       " ","5","2"," ","o","u","t","p","u","t",","," ","3",".","6","k",
       " ","c","a","c","h","e"," ","r","e","a","d"," ","(","E","s","t",
       "."," ","1"," ","P","r","e","m","i","u","m"," ","r","e","q","u",
       "e","s","t",")">>

UsageLineUpper ==
    <<"c","l","a","u","d","e","-","s","o","n","n","e","t","-","4",".",
       "5"," "," "," "," ","7",".","5","K"," ","i","n","p","u","t",",",
       " ","5","2"," ","o","u","t","p","u","t",","," ","3",".","6","K",
       " ","c","a","c","h","e"," ","r","e","a","d"," ","(","E","s","t",
       "."," ","1"," ","P","r","e","m","i","u","m"," ","r","e","q","u",
       "e","s","t",")">>

UsageLineBroken ==
    <<"c","l","a","u","d","e","-","s","o","n","n","e","t","-","4",".",
       "5"," "," "," "," ","7",".","5","k"," ","i","n","p","u","t",",",
       "\n","5","2"," ","o","u","t","p","u","t",",","\n","3",".","6","k",
       " ","c","a","c","h","e"," ","r","e","a","d"," ","(","E","s","t",
       "."," ","1"," ","P","r","e","m","i","u","m"," ","r","e","q","u",
       "e","s","t",")">>

NoUsageText ==
    <<"e","r","r","o","r",":"," ","q","u","o","t","a"," ","e","x","c",
       "e","e","d","e","d">>

StderrTexts ==
    { UsageLine, UsageLineNoWrite, UsageLineUpper, UsageLineBroken, NoUsageText, <<>> }

StderrOutcomes ==
    { [ok |-> FALSE, text |-> <<>>] } \cup { [ok |-> TRUE, text |-> x] : x \in StderrTexts }

SeqCalls == {1}

Init ==
    /\ InitAdapters(SeqCalls)
    /\ nModel = <<>> /\ nResult = NotNormalized
    /\ xParts = None /\ xText = <<>> /\ xUsage = NotExtracted

Next ==
    \E c \in SeqCalls :
        \/ \E a \in Adapters, h \in Histories, g \in GaugeOutcomes : Setup(c, a, h, g)
        \/ Validate(c)
        \/ \E o \in StdoutOutcomes : ReadStdout(c, o)
        \/ \E o \in StderrOutcomes : ReadStderr(c, o)
        \/ Finish(c)
        \/ AskRetryable(c)
        \/ Reset(c)

Spec == Init /\ [][Next]_vars

(***************************************************************************)
(* The concurrent specification: NumCalls calls in flight at once, on the  *)
(* same adapter or on different ones, their steps interleaved.             *)
(***************************************************************************)

NumCalls == 2

ConCalls == 1..NumCalls

ConHistories ==
    { <<>>,
      << [Role |-> "user", Content |-> "p1"] >>,
      << [Role |-> "assistant", Content |-> "p1"], [Role |-> "user", Content |-> "p2"] >> }

ConGaugeOutcomes == {"ok", GaugeNames[3]}

ConStdoutOutcomes == { [ok |-> FALSE, variant |-> 0], [ok |-> TRUE, variant |-> 1] }

ConStderrOutcomes ==
    { [ok |-> FALSE, text |-> <<>>],
      [ok |-> TRUE, text |-> UsageLine],
      [ok |-> TRUE, text |-> NoUsageText] }

InitConcurrent ==
    /\ InitAdapters(ConCalls)
    /\ nModel = <<>> /\ nResult = NotNormalized
    /\ xParts = None /\ xText = <<>> /\ xUsage = NotExtracted

NextConcurrent ==
    \E c \in ConCalls :
        \/ \E a \in Adapters, h \in ConHistories, g \in ConGaugeOutcomes : Setup(c, a, h, g)
        \/ Validate(c)
        \/ \E o \in ConStdoutOutcomes : ReadStdout(c, o)
        \/ \E o \in ConStderrOutcomes : ReadStderr(c, o)
        \/ Finish(c)
        \/ AskRetryable(c)
        \/ Reset(c)

SpecConcurrent == InitConcurrent /\ [][NextConcurrent]_vars

(***************************************************************************)
(* The normalizer specification: StripGitHubModelPrefix on one identifier  *)
(***************************************************************************)

InitNormalizer ==
    /\ nModel \in ModelIds
    /\ nResult = NotNormalized
    /\ xParts = None /\ xText = <<>> /\ xUsage = NotExtracted
    /\ InitAdapters({})

\* one call of StripGitHubModelPrefix
Normalize ==
    /\ ~nResult.done
    /\ nResult' = [done |-> TRUE, value |-> StripGitHubModelPrefix(nModel)]
    /\ UNCHANGED <<nModel, adapterVars, extVars>>

NextNormalizer == Normalize

SpecNormalizer == InitNormalizer /\ [][NextNormalizer]_vars

(***************************************************************************)
(* C4                                                                      *)
(***************************************************************************)

\* the recognized prefixes that are literal, case-sensitive prefixes of model
MatchingPrefixes(model) ==
    { i \in 1..Len(gitHubModelPrefixes) :
        /\ Len(gitHubModelPrefixes[i]) <= Len(model)
        /\ \A j \in 1..Len(gitHubModelPrefixes[i]) :
               model[j] = gitHubModelPrefixes[i][j] }

\* C4: the normalizer removes exactly the first prefix of the list (in list
\* order, case-sensitively) that is a literal prefix of the identifier, once,
\* and returns the identifier unchanged when none is; github-gpt-5 -> gpt-5,
\* claude-3 -> claude-3, gh-github-gpt-5 -> github-gpt-5.
C4_StripsFirstPrefixOnce ==
    nResult.done =>
        /\ IF MatchingPrefixes(nModel) = {}
           THEN nResult.value = nModel
           ELSE LET k == CHOOSE i \in MatchingPrefixes(nModel) :
                             \A j \in MatchingPrefixes(nModel) : i <= j
                IN  gitHubModelPrefixes[k] \o nResult.value = nModel
        /\ (nModel = <<"g","i","t","h","u","b","-","g","p","t","-","5">>
                => nResult.value = <<"g","p","t","-","5">>)
        /\ (nModel = <<"c","l","a","u","d","e","-","3">>
                => nResult.value = <<"c","l","a","u","d","e","-","3">>)
        /\ (nModel = <<"g","h","-","g","i","t","h","u","b","-","g","p","t","-","5">>
                => nResult.value = <<"g","i","t","h","u","b","-","g","p","t","-","5">>)

C4_Witness ==
    /\ nModel = <<"g","h","-","g","i","t","h","u","b","-","g","p","t","-","5">>
    /\ nResult.done /\ nResult.value = <<"g","i","t","h","u","b","-","g","p","t","-","5">>


(***************************************************************************)
(* The extractor specification: parseCopilotTokenMetadata on one text,     *)
(* written from its pieces                                                 *)
(***************************************************************************)

DigitChars == <<"0","1","2","3","4","5","6","7","8","9">>

RECURSIVE ToDigits(_)
ToDigits(n) ==
    IF n < 10 THEN <<DigitChars[n + 1]>>
    ELSE Append(ToDigits(n \div 10), DigitChars[(n % 10) + 1])

\* the decimal numeral of d / 10^f with exactly f digits behind the point
FormatDecimal(d, f) ==
    ToDigits(d \div Pow10(f))
    \o (IF f = 0 THEN <<>>
        ELSE <<".">> \o [i \in 1..f |->
                 DigitChars[(((d % Pow10(f)) \div Pow10(f - i)) % 10) + 1]])

Num(d, f, suffix) == [d |-> d, f |-> f, suffix |-> suffix]

Leads == { <<>>, <<"c","l","a","u","d","e","-","s","o","n","n","e","t","-","4",".",
        "5"," "," "," "," ">> }

InputNums ==
    { Num(n[1], n[2], x) : n \in { <<75, 1>>, <<323, 1>>, <<52, 0>> },
                           x \in { <<>>, <<"k">>, <<"K">> } }

OutputNums ==
    { Num(n[1], n[2], x) : n \in { <<52, 0>>, <<1001, 3>> }, x \in { <<>>, <<"k">> } }

CacheReadNums == { Num(36, 1, x) : x \in { <<"k">>, <<"K">> } }

NoClause == Num(0, 0, <<"-">>)

CacheWriteNums == { NoClause, Num(37, 1, <<"k">>), Num(52, 0, <<>>) }

ValueSeps == { <<" ">>, <<"\n">> }

ClauseSeps == { <<>>, <<" ">>, <<"\n">> }

Trailer == <<" ","(","E","s","t","."," ","1"," ","P","r","e","m","i","u","m",
        " ","r","e","q","u","e","s","t",")">>

PartsSet ==
    [lead : Leads, in : InputNums, out : OutputNums, read : CacheReadNums,
     write : CacheWriteNums, vsep : ValueSeps, csep : ClauseSeps]

RenderClause(num, vsep, keyword) ==
    FormatDecimal(num.d, num.f) \o num.suffix \o vsep \o keyword

Render(p) ==
    p.lead
    \o RenderClause(p.in, p.vsep, KwInput) \o p.csep
    \o RenderClause(p.out, p.vsep, KwOutput) \o p.csep
    \o RenderClause(p.read, p.vsep, KwCacheRead)
    \o (IF p.write = NoClause THEN <<>>
        ELSE <<",">> \o p.csep \o RenderClause(p.write, p.vsep, KwCacheWrite))
    \o Trailer

InitExtractor ==
    /\ xParts \in PartsSet
    /\ xText = Render(xParts)
    /\ xUsage = NotExtracted
    /\ nModel = <<>> /\ nResult = NotNormalized
    /\ InitAdapters({})

\* one call of parseCopilotTokenMetadata
Extract ==
    /\ ~xUsage.done
    /\ xUsage' = [done |-> TRUE, usage |-> parseCopilotTokenMetadata(xText)]
    /\ UNCHANGED <<xParts, xText, adapterVars, normVars>>

NextExtractor == Extract

SpecExtractor == InitExtractor /\ [][NextExtractor]_vars

(***************************************************************************)
(* Properties of SendQuery and IsRetryable                                 *)
(***************************************************************************)

Returned(c) == call[c].pc \in {"done", "asked"}

Started(c) == call[c].pc # "idle"

EndsWithUser(history) ==
    /\ Len(history) > 0
    /\ history[Len(history)].Role = "user"

\* the sandbox has not been touched for the call
SandboxUntouched(c) ==
    /\ ~runs[c].dispatched
    /\ runs[c].stdoutReads = 0
    /\ runs[c].stderrReads = 0

\* C1: a call whose history is empty or does not end in a user message fails
\* with a ValidationError, whatever model normalization and the span and
\* gauge setup do, and the sandbox is never invoked for it: no command is
\* dispatched, neither standard output nor standard error is read.
C1_InvalidHistoryIsValidationError ==
    \A c \in DOMAIN call :
        (Started(c) /\ ~EndsWithUser(call[c].history)) =>
            /\ SandboxUntouched(c)
            /\ Returned(c) =>
                   /\ call[c].rerr.kind = "validation"
                   /\ call[c].response.nil

\* C2: a call whose history ends in a user message and that returns a
\* response returns the standard output the sandbox captured for the
\* command built from the last message's content (and the normalized
\* model) as its content; no validation error is raised for such a history
\* and no earlier message enters the command.
C2_ContentIsStdoutOfLastPrompt ==
    \A c \in DOMAIN call :
        (Returned(c) /\ EndsWithUser(call[c].history)) =>
            LET h == call[c].history
                a == call[c].adapter
            IN  /\ call[c].rerr.kind # "validation"
                /\ (call[c].rerr = NilError) = ~call[c].response.nil
                /\ ~call[c].response.nil =>
                       /\ runs[c].dispatched
                       /\ runs[c].container.execs =
                              Append(client[a].execs,
                                     CopilotCommand(
                                         StripGitHubModelPrefix(endpoint[a].Model),
                                         h[Len(h)].Content))
                       /\ call[c].response.Content = runs[c].stdout
                       /\ \E v \in {1, 2} :
                              call[c].response.Content =
                                  <<"answer", h[Len(h)].Content, v>>

C2_Witness ==
    \E c \in DOMAIN call :
        /\ Returned(c)
        /\ Len(call[c].history) = 2
        /\ call[c].history[1] = [Role |-> "user", Content |-> "p1"]
        /\ call[c].history[2] = [Role |-> "user", Content |-> "p2"]
        /\ call[c].response.Content = <<"answer", "p2", 2>>

\* the error values a call can end with, the nil error among them
ErrorValues ==
    { NilError, EmptyHistoryError, NotUserError,
      [kind |-> "exec", msg |-> "stdout"], [kind |-> "exec", msg |-> "stderr"] }
    \cup { GaugeError(GaugeNames[i]) : i \in 1..Len(GaugeNames) }

\* C3: IsRetryable answers false for every error value, the nil error and
\* the sandbox failures included, for every call in any sequence of calls,
\* and no call reads the output of the sandbox a second time.
C3_NeverRetryable ==
    /\ \A e \in ErrorValues : ~IsRetryable(e)
    /\ \A c \in DOMAIN call :
           /\ call[c].rerr \in ErrorValues
           /\ call[c].pc = "asked" => ~call[c].retryable
           /\ runs[c].stdoutReads <= 1
           /\ runs[c].stderrReads <= 1

C3_Witness ==
    \E c \in DOMAIN call :
        /\ call[c].pc = "asked"
        /\ call[c].rerr = [kind |-> "exec", msg |-> "stdout"]
        /\ ~call[c].retryable
        /\ runs[c].stdoutReads = 1

\* C6: when the standard error read for a call contains no match of the
\* usage pattern (an empty text, an error message, a usage line the pattern
\* does not accept), the call still succeeds: no error, a response whose
\* content is the captured standard output and whose token usage is all
\* zero.
C6_SilentDegradation ==
    \A c \in DOMAIN call :
        (/\ Returned(c)
         /\ runs[c].stderrReads = 1
         /\ call[c].rerr.kind # "exec"
         /\ FindStringSubmatch(runs[c].stderr) = <<>>) =>
            /\ call[c].rerr = NilError
            /\ ~call[c].response.nil
            /\ call[c].response.Content = runs[c].stdout
            /\ call[c].response.TokenUsage = ZeroUsage

C6_Witness ==
    \E c \in DOMAIN call :
        /\ Returned(c)
        /\ runs[c].stderrReads = 1
        /\ runs[c].stderr = UsageLineUpper
        /\ FindStringSubmatch(runs[c].stderr) = <<>>
        /\ call[c].rerr = NilError
        /\ ~call[c].response.nil
        /\ call[c].response.TokenUsage = ZeroUsage
        /\ call[c].response.Content = <<"answer", "p1", 1>>

\* C10: a call ends at its first failure.  A call that has an error has
\* returned, without a response and without a gauge recorded; after a
\* validation error the sandbox was not touched, after a failed read of
\* standard output standard error was not read.  The gauges are recorded
\* only by a call that returns a response, with the values of its usage.
C10_TerminalOnFirstFailure ==
    \A c \in DOMAIN call :
        /\ call[c].rerr # NilError =>
               /\ Returned(c)
               /\ call[c].response.nil
               /\ call[c].gauges = <<>>
               /\ call[c].rerr \in ErrorValues
        /\ call[c].rerr.kind \in {"validation", "gauge"} => SandboxUntouched(c)
        /\ call[c].rerr = [kind |-> "exec", msg |-> "stdout"] =>
               /\ runs[c].stdoutReads = 1
               /\ runs[c].stderrReads = 0
        /\ call[c].rerr = [kind |-> "exec", msg |-> "stderr"] =>
               /\ runs[c].stderrReads = 1
               /\ call[c].metadata = <<>>
        /\ call[c].gauges # <<>> =>
               /\ Returned(c)
               /\ ~call[c].response.nil
               /\ call[c].response.TokenUsage = parseCopilotTokenMetadata(runs[c].stderr)
               /\ Len(call[c].gauges) = 3
               /\ call[c].gauges[1].value = call[c].response.TokenUsage.InputTokens
               /\ call[c].gauges[2].value = call[c].response.TokenUsage.OutputTokens
               /\ call[c].gauges[3].value = call[c].response.TokenUsage.CachedTokenReads
        /\ (Returned(c) /\ ~call[c].response.nil) => call[c].gauges # <<>>

C10_Witness ==
    \E c \in DOMAIN call :
        /\ call[c].pc = "done"
        /\ call[c].rerr = [kind |-> "exec", msg |-> "stdout"]
        /\ runs[c].stderrReads = 0
        /\ call[c].gauges = <<>>

\* what a call returns, from its own history, its own gauge and sandbox
\* outcomes and the endpoint its adapter was constructed with
OwnOutcome(c) ==
    LET h   == call[c].history
        ep  == EndpointOf(call[c].adapter)
        run == runs[c]
    IN  IF call[c].failing # "ok"
        THEN [rerr |-> GaugeError(call[c].failing), response |-> NilResponse,
              container |-> NoContainer]
        ELSE IF Len(h) = 0
        THEN [rerr |-> EmptyHistoryError, response |-> NilResponse,
              container |-> NoContainer]
        ELSE IF h[Len(h)].Role # "user"
        THEN [rerr |-> NotUserError, response |-> NilResponse,
              container |-> NoContainer]
        ELSE LET container ==
                     WithExec(GhcpClientContainer(ep.Key, CliVersion),
                              CopilotCommand(StripGitHubModelPrefix(ep.Model),
                                             h[Len(h)].Content))
             IN  IF call[c].rerr.kind = "exec"
                 THEN [rerr |-> call[c].rerr, response |-> NilResponse,
                       container |-> container]
                 ELSE [rerr |-> NilError,
                       response |-> [nil |-> FALSE, Content |-> run.stdout,
                                     ToolCalls |-> <<>>,
                                     TokenUsage |-> parseCopilotTokenMetadata(run.stderr)],
                       container |-> container]

\* C9: under every interleaving of concurrent calls, on one adapter or on
\* several, the endpoint and the base container of every adapter are what
\* they were at construction, and what a call returns (its command, its
\* response or its error) is determined by its own history and its own
\* gauge and sandbox outcomes.
C9_CallsShareNoState ==
    /\ endpoint = [a \in Adapters |-> EndpointOf(a)]
    /\ client = [a \in Adapters |-> GhcpClientContainer(EndpointOf(a).Key, CliVersion)]
    /\ \A c \in DOMAIN call :
           Returned(c) =>
               LET own == OwnOutcome(c)
               IN  /\ call[c].rerr = own.rerr
                   /\ call[c].response = own.response
                   /\ runs[c].container = own.container

C9_Witness ==
    /\ call[1].adapter = call[2].adapter
    /\ call[1].pc = "stderr"
    /\ call[2].pc = "done"
    /\ ~call[2].response.nil
    /\ call[1].history # call[2].history

(***************************************************************************)
(* Properties of parseCopilotTokenMetadata                                 *)
(***************************************************************************)

\* the value a clause spells: its number, times 1000 behind a k, whole part
Scaled(num) ==
    (num.d * (IF num.suffix = <<"k">> THEN 1000 ELSE 1)) \div Pow10(num.f)

LowerCase(p) == p.in.suffix # <<"K">> /\ p.read.suffix # <<"K">>

OneLine(p) == p.vsep # <<"\n">> /\ p.csep # <<"\n">>

\* C5: on a text with the usage pattern each of inputTokens, outputTokens
\* and cachedTokenReads is its number, times 1000 when suffixed with k,
\* totalTokens is inputTokens + outputTokens, and cachedTokenWrites is
\* the number of the cache-write clause, 0 when the clause is left out.
C5_FieldsAreScaledNumbers ==
    (xUsage.done /\ LowerCase(xParts) /\ OneLine(xParts)) =>
        /\ xUsage.usage.InputTokens = Scaled(xParts.in)
        /\ xUsage.usage.OutputTokens = Scaled(xParts.out)
        /\ xUsage.usage.CachedTokenReads = Scaled(xParts.read)
        /\ xUsage.usage.CachedTokenWrites =
               (IF xParts.write = NoClause THEN 0 ELSE Scaled(xParts.write))
        /\ xUsage.usage.TotalTokens = Scaled(xParts.in) + Scaled(xParts.out)

\* the same pieces with every K suffix written k
Lowered(p) ==
    [p EXCEPT !.in.suffix = IF @ = <<"K">> THEN <<"k">> ELSE @,
              !.read.suffix = IF @ = <<"K">> THEN <<"k">> ELSE @]

\* C7: a usage line whose values carry an upper-case K suffix yields the
\* usage of the same line written with k.
C7_SuffixIsCaseInsensitive ==
    (xUsage.done /\ OneLine(xParts)) =>
        xUsage.usage = parseCopilotTokenMetadata(Render(Lowered(xParts)))

\* C8: a text whose clauses, or a value and its keyword, are separated by
\* line breaks does not match and yields the all-zero usage.
C8_PatternIsSingleLine ==
    (xUsage.done /\ ~OneLine(xParts)) => xUsage.usage = ZeroUsage

====
